---- MODULE Spec2Model ----
(***************************************************************************)
(* The TSP-sealed SSE transport of python-mcp-over-tsp:                    *)
(*   server  src/src/mcp/server/sse.py  (SseServerTransport)               *)
(*   client  src/src/mcp/client/sse.py  (sse_client)                       *)
(*   shared  src/src/mcp/shared/tmcp.py (get_or_create_identity)           *)
(* Every coroutine is cut at its awaits: what runs between two awaits is   *)
(* one action.  The anyio memory object streams have capacity 0, so a      *)
(* send is a rendezvous: the sender waits (first come, first served) until *)
(* a receiver takes its item.                                              *)
(***************************************************************************)
EXTENDS Integers, Sequences, FiniteSets, TLC

\* ------------------------------------------------------------- bounds
MaxConns == 2       \* accepted stream-open requests (sessions)
MaxPosts == 2       \* handle_post_message invocations
MaxMsgs == 2        \* messages a client application sends on one connection
MaxSrvMsgs == 2     \* messages the server application sends in all

\* -------------------------------------------------------- identifiers
Peers == {"a", "b"}             \* published client identifiers
UnknownDid == "x"               \* an identifier the resolver does not know
NoDid == "none"                 \* the did query parameter is absent
ServerDid == "srv"              \* self._did
OtherDid == "other"             \* some identity that is not the server's
Dids == Peers \cup {UnknownDid}
Conns == 1..MaxConns
Posts == 1..MaxPosts

\* ------------------------------------------------ messages and codecs
None == 0                       \* a field that is None / absent
JsonRpcVersion == 2

\* A JSON-RPC message the application of connection k sends as its i-th:
\* the id names the connection and the position, params is left None.
Msg(dir, k, i) ==
    [jsonrpc |-> JsonRpcVersion, id |-> 100 * dir + 10 * k + i, method |-> 1,
     params |-> None]
NoMsg == [jsonrpc |-> None, id |-> None, method |-> None, params |-> None]
\* The i-th message of the client application of connection k, and of the
\* server application on session k; a message of a caller that is no
\* sse_client (it POSTs on its own) has connection 0.
ClientMsg(k, i) == Msg(1, k, i)
ServerMsg(k, i) == Msg(2, k, i)

\* model_dump(by_alias=True, exclude_none=True) + json.dumps: the fields
\* that are not None, as key/value pairs in declaration order.
DumpJson(m) ==
    SelectSeq(<< <<"jsonrpc", m.jsonrpc>>, <<"id", m.id>>,
                 <<"method", m.method>>, <<"params", m.params>> >>,
              LAMBDA p : p[2] # None)

\* The value of key in a JSON text, None when the key is absent.
JsonGet(text, key) ==
    LET hits == SelectSeq(text, LAMBDA p : p[1] = key)
    IN  IF Len(hits) = 0 THEN None ELSE hits[1][2]

\* JSONRPCMessage.model_validate_json: jsonrpc must be "2.0" and a method
\* must be present; absent optional fields default to None.
ParseOk(text) ==
    JsonGet(text, "jsonrpc") = JsonRpcVersion /\ JsonGet(text, "method") # None

\* Mutant: the parsed message loses its id.
ParseJsonNoId(text) ==
    [jsonrpc |-> JsonGet(text, "jsonrpc"), id |-> None,
     method |-> JsonGet(text, "method"), params |-> JsonGet(text, "params")]

ParseJson(text) ==
    [jsonrpc |-> JsonGet(text, "jsonrpc"), id |-> JsonGet(text, "id"),
     method |-> JsonGet(text, "method"), params |-> JsonGet(text, "params")]

\* A text that is JSON but no JSON-RPC message.
GarbageText == << <<"foo", 1>> >>

\* What lands on an inbound queue: a message or an error value.
NoItem == [kind |-> "none", msg |-> NoMsg]
MsgItem(m) == [kind |-> "msg", msg |-> m]
ErrItem == [kind |-> "err", msg |-> NoMsg]

\* wallet.seal_message(sender, receiver, payload): the sealed blob.
Seal(snd, rcv, payload) ==
    [snd |-> snd, rcv |-> rcv, payload |-> payload, intact |-> TRUE]
NoBlob == [snd |-> NoDid, rcv |-> NoDid, payload |-> <<>>, intact |-> FALSE]

\* wallet.get_sender_receiver(body): the envelope's declared identifiers.
GetSenderReceiver(blob) == <<blob.snd, blob.rcv>>

\* wallet.open_message(blob) succeeds only on an intact blob, from a sender
\* whose identifier the wallet has verified, addressed to a local identity.
CanOpen(vids, me, blob) ==
    blob.intact /\ blob.snd \in vids /\ blob.rcv = me

\* base64.b64encode(blob, b"-_") / base64.b64decode(data, "-_"): decoding
\* with another alphabet than the encoder's does not give the blob back.
ServerAltChars == "-_"         \* sse_send encodes with it
\* Mutant: the reader decodes with the standard alphabet.
ClientAltCharsStd == "+/"
ClientAltChars == "-_"         \* sse_reader decodes with it
B64Encode(blob, altchars) == [alphabet |-> altchars, blob |-> blob]
B64Decode(data, altchars) ==
    IF data.alphabet = altchars THEN data.blob
    ELSE [data.blob EXCEPT !.intact = FALSE]

\* quote(self._endpoint): the POST target, relative to the stream's URL.
RelativeUrl == 0
SessionUri == << <<"url", RelativeUrl>> >>

\* sse_send(event, data): the JSON of {"event", "data"} sealed for the
\* session's peer, base64-encoded, and framed as an SSE "message" event.
SseSend(userDid, event, data) ==
    [event |-> "message",
     data |-> B64Encode(Seal(ServerDid, userDid,
                             [event |-> event, data |-> data]),
                       ServerAltChars)]

\* ---------------------------------------------------------- the state
VARIABLES
    registry,     \* self._read_stream_writers: did -> session (0: absent)
    wallet,       \* identifiers the server's wallet has verified
    nConns,       \* stream-open requests accepted so far
    lastReject,   \* why the last rejected stream-open request was rejected
    sDid,         \* session -> user_did
    sPc,          \* session -> where its sse_writer stands
    sSent,        \* session -> messages the server application has sent
    wire,         \* session -> every event pushed on its channel, in order
    inQ,          \* session -> handlers waiting in read_stream_writer.send
    srvRecv,      \* session -> items the server application has received
    sClosed,      \* session -> the stream ends of the session that are closed
    nPosts,       \* handle_post_message invocations so far
    hs,           \* invocation -> its state
    cR,           \* connection -> where the client's sse_reader stands
    cPos,         \* connection -> events the sse_reader has consumed
    cItem,        \* connection -> the item sse_reader is sending
    cRecv,        \* connection -> items the client application has received
    cYield,       \* connection -> sse_client has yielded its streams
    cW,           \* connection -> where the client's post_writer stands
    cSent,        \* connection -> messages the client application has sent
    cPostH,       \* connection -> the invocation serving its POST in flight
    cScope,       \* connection -> where sse_client's task group stands
    cInClosed,    \* connection -> read_stream_writer is closed
    cOutClosed,   \* connection -> write_stream is closed
    idStore,      \* wallet of get_or_create_identity: alias -> identifier
    idPublished,  \* identifiers the DID server holds (verify_vid succeeds)
    idUuids,      \* identifiers bound so far (one uuid4 each)
    idPublishCalls, \* publish requests sent so far
    idCalls,      \* calls of get_or_create_identity so far
    idLast        \* the last call: its alias and how it ended

serverVars == <<registry, wallet, nConns, lastReject, sDid, sPc, sSent,
                wire, inQ, srvRecv, sClosed>>
postVars == <<nPosts, hs>>
clientVars == <<cR, cPos, cItem, cRecv, cYield, cW, cSent, cPostH>>
scopeVars == <<cScope, cInClosed, cOutClosed>>
idVars == <<idStore, idPublished, idUuids, idPublishCalls, idCalls, idLast>>
vars == <<serverVars, postVars, clientVars, scopeVars, idVars>>

\* The aliases get_or_create_identity is called with, and the record of
\* a call: its alias, what it returned (None when it raised), how the
\* verification of the stored identifier and the publish request ended
\* ("none": there was none).
Aliases == {"echoA", "echoB"}
NoCall == [alias |-> "", did |-> None, raised |-> FALSE, verified |-> "none",
           publish |-> "none"]

NoHandler ==
    [pc |-> "idle", body |-> NoBlob, resp |-> 0, opened |-> FALSE,
     looked |-> FALSE, sess |-> 0, item |-> NoItem,
     \* what held when the handler read the request, and the how manyth
     \* request read it was (for the properties)
     opens |-> FALSE, reg |-> FALSE, live |-> FALSE, at |-> 0]

\* The server's wallet is a persistent store (resolve_alias finds the
\* identity of an earlier run): it is new, or it holds the identifiers
\* that an earlier run of the server verified.
Init ==
    /\ registry = [d \in Dids |-> 0]
    /\ wallet \in {{}, Peers}
    /\ nConns = 0
    /\ lastReject = "none"
    /\ sDid = [k \in Conns |-> NoDid]
    /\ sPc = [k \in Conns |-> "none"]
    /\ sSent = [k \in Conns |-> 0]
    /\ wire = [k \in Conns |-> <<>>]
    /\ inQ = [k \in Conns |-> <<>>]
    /\ srvRecv = [k \in Conns |-> <<>>]
    /\ sClosed = [k \in Conns |-> {}]
    /\ nPosts = 0
    /\ hs = [h \in Posts |-> NoHandler]
    /\ cR = [k \in Conns |-> "none"]
    /\ cPos = [k \in Conns |-> 0]
    /\ cItem = [k \in Conns |-> NoItem]
    /\ cRecv = [k \in Conns |-> <<>>]
    /\ cYield = [k \in Conns |-> FALSE]
    /\ cW = [k \in Conns |-> "none"]
    /\ cSent = [k \in Conns |-> 0]
    /\ cPostH = [k \in Conns |-> 0]
    /\ cScope = [k \in Conns |-> "none"]
    /\ cInClosed = [k \in Conns |-> FALSE]
    /\ cOutClosed = [k \in Conns |-> FALSE]
    /\ idStore = [al \in Aliases |-> None]
    /\ idPublished = {}
    /\ idUuids = 0
    /\ idPublishCalls = 0
    /\ idCalls = 0
    /\ idLast = NoCall

\* ------------------------------------------------- server: connect_sse
\* connect_sse up to its first await: the request kind, the did query
\* parameter, resolve_did_web, and only then the registry entry.
ConnectResult(type, did) ==
    IF type # "http" THEN "nothttp"
    ELSE IF did = NoDid THEN "nodid"
    ELSE IF did \notin Peers THEN "resolve"
    ELSE "ok"

\* Mutant: the registry entry is made before the identifier is resolved.
ConnectRegistryEarly(reg, type, did, k) ==
    IF type = "http" /\ did # NoDid THEN [reg EXCEPT ![did] = k] ELSE reg

\* Mutant: the handshake stores no writer.
ConnectRegistryOmitted(reg, type, did, k) == reg

\* Mutant: an identifier that is registered keeps its first session.
ConnectRegistryKeepFirst(reg, type, did, k) ==
    IF ConnectResult(type, did) = "ok" /\ reg[did] = 0
    THEN [reg EXCEPT ![did] = k] ELSE reg

ConnectRegistry(reg, type, did, k) ==
    IF ConnectResult(type, did) = "ok" THEN [reg EXCEPT ![did] = k] ELSE reg

\* A stream-open request that connect_sse accepts as session k; the peer
\* is an sse_client, whose sse_reader starts reading the stream.
ConnectSse(did) ==
    /\ nConns < MaxConns
    /\ ConnectResult("http", did) = "ok"
    /\ LET k == nConns + 1 IN
        /\ nConns' = k
        /\ wallet' = wallet \cup {did}
        /\ registry' = ConnectRegistry(registry, "http", did, k)
        /\ sDid' = [sDid EXCEPT ![k] = did]
        /\ sPc' = [sPc EXCEPT ![k] = "endpoint"]
        /\ cR' = [cR EXCEPT ![k] = "read"]
        /\ cScope' = [cScope EXCEPT ![k] = "open"]
    /\ UNCHANGED <<sClosed, lastReject, sSent, wire, inQ, srvRecv, postVars,
                   cPos, cItem, cRecv, cYield, cW, cSent, cPostH,
                   cInClosed, cOutClosed, idVars>>

\* A stream-open request that connect_sse rejects by raising.
ConnectReject(type, did) ==
    /\ ConnectResult(type, did) # "ok"
    /\ lastReject' = ConnectResult(type, did)
    /\ registry' = ConnectRegistry(registry, type, did, nConns + 1)
    /\ UNCHANGED <<sClosed, wallet, nConns, sDid, sPc, sSent, wire, inQ, srvRecv,
                   postVars, clientVars,
                   scopeVars, idVars>>

\* sse_writer's first step: the endpoint event.
SseEndpoint(k) ==
    /\ sPc[k] = "endpoint"
    /\ wire' = [wire EXCEPT
                  ![k] = Append(@, SseSend(sDid[k], "endpoint", SessionUri))]
    /\ sPc' = [sPc EXCEPT ![k] = "loop"]
    /\ UNCHANGED <<sClosed, registry, wallet, nConns, lastReject, sDid, sSent,
                   inQ, srvRecv, postVars, clientVars,
                   scopeVars, idVars>>

\* The messages the server application has sent on all its sessions.
RECURSIVE SumTo(_, _)
SumTo(f, n) == IF n = 0 THEN 0 ELSE f[n] + SumTo(f, n - 1)

\* Mutant: the message loop runs beside the endpoint event's send.
InLoopEarly(pc) == pc \in {"endpoint", "loop"}

\* Line 163: sse_writer takes messages only in its async for, which it
\* enters after the endpoint event is sent.
InLoop(pc) == pc = "loop"

\* The server application sends its next message on session k's
\* write_stream; sse_writer, waiting in its async for, takes it and runs
\* its loop body: sse_send("message", model_dump_json(...)).
SrvAppSend(k) ==
    /\ InLoop(sPc[k])
    /\ SumTo(sSent, MaxConns) < MaxSrvMsgs
    /\ sSent' = [sSent EXCEPT ![k] = @ + 1]
    /\ wire' = [wire EXCEPT
                  ![k] = Append(@, SseSend(sDid[k], "message",
                                           DumpJson(ServerMsg(k, sSent[k] + 1))))]
    /\ UNCHANGED <<sClosed, registry, wallet, nConns, lastReject, sDid, sPc, inQ,
                   srvRecv, postVars, clientVars,
                   scopeVars, idVars>>

\* Line 159: the stream ends that sse_writer's async with closes when
\* sse_writer leaves it, however it leaves it.
SseWriterCloses == {"sse_stream_writer", "write_stream_reader"}

\* The push stream of session k ends: the client disconnects, a write
\* fails or the task group is cancelled.  sse_writer leaves its
\* async with; nothing touches self._read_stream_writers and nothing
\* closes read_stream_writer.
SseClose(k) ==
    /\ sPc[k] \in {"endpoint", "loop"}
    /\ sPc' = [sPc EXCEPT ![k] = "closed"]
    /\ sClosed' = [sClosed EXCEPT ![k] = @ \cup SseWriterCloses]
    /\ UNCHANGED <<registry, wallet, nConns, lastReject, sDid, sSent, wire,
                   inQ, srvRecv, postVars, clientVars,
                   scopeVars, idVars>>

\* ---------------------------------------- server: handle_post_message
\* handle_post_message from the body (after await request.body()) to its
\* response: nothing in between awaits.  pc is where the invocation stands
\* once the response is out: "done" (returned), "raised" (an exception
\* left the handler, no response of its own) or "responded" (the response
\* is sent and writer.send(item) is still to come).
\* Mutant: the receiver is not checked.
ReceiverOkAlways(receiver) == TRUE

\* Mutant: the writer of the newest session, whoever the sender is.
LookupWriterLatest(reg, sender) ==
    LET ks == {reg[d] : d \in Dids} IN CHOOSE k \in ks : \A j \in ks : j <= k

\* Mutant: the parse error is answered and dropped.
OnParseErrorDropped(h, writer) == [h EXCEPT !.pc = "done", !.resp = 400]

\* Line 190: the declared receiver must be the server's identity.
ReceiverOk(receiver) == receiver = ServerDid

\* Line 198: the sender's read_stream_writer, 0 when there is none.
LookupWriter(reg, sender) == reg[sender]

\* Lines 207-212: the parse failed; answer 400, then send the error on
\* the session's read_stream_writer.
OnParseError(h, writer) ==
    [h EXCEPT !.pc = "responded", !.resp = 400, !.sess = writer,
              !.item = ErrItem]

\* Mutant: the message is sent on the queue before any response is.
OnMessageUnanswered(h, writer, message) ==
    [h EXCEPT !.pc = "responded", !.sess = writer, !.item = MsgItem(message)]

\* Lines 214-217: answer 202, then send the message.
OnMessage(h, writer, message) ==
    [h EXCEPT !.pc = "responded", !.resp = 202, !.sess = writer,
              !.item = MsgItem(message)]

HandlePost(body, reg, vids) ==
    LET sr == GetSenderReceiver(body)
        sender == sr[1]
        receiver == sr[2]
        base == [NoHandler EXCEPT !.body = body]
    IN  IF ~ReceiverOk(receiver)
        THEN [base EXCEPT !.pc = "done", !.resp = 400]
        ELSE IF ~CanOpen(vids, ServerDid, body)
        THEN [base EXCEPT !.pc = "raised"]
        ELSE LET jsonText == body.payload
                 writer == LookupWriter(reg, sender)
                 opened == [base EXCEPT !.opened = TRUE, !.looked = TRUE]
             IN  IF writer = 0
                 THEN [opened EXCEPT !.pc = "done", !.resp = 404]
                 ELSE IF ~ParseOk(jsonText)
                 THEN OnParseError(opened, writer)
                 ELSE OnMessage(opened, writer, ParseJson(jsonText))

\* Whether a push stream of this peer is running.
HasLiveSession(did) ==
    \E k \in Conns : sDid[k] = did /\ sPc[k] \in {"endpoint", "loop"}

\* Bodies POSTed by callers that are no sse_client of the model: for
\* another receiver, damaged, from an identifier nobody published, with a
\* plaintext that is no message, and a well-formed one.
OwnMsgText == DumpJson(ClientMsg(0, 1))
OtherBodies ==
    { Seal("a", OtherDid, OwnMsgText),
      [Seal("a", ServerDid, OwnMsgText) EXCEPT !.intact = FALSE],
      Seal(UnknownDid, ServerDid, OwnMsgText),
      Seal("a", ServerDid, GarbageText),
      Seal("a", ServerDid, OwnMsgText) }

\* A POST request reaches handle_post_message, which awaits its body.
PostArrive(body) ==
    /\ nPosts < MaxPosts
    /\ nPosts' = nPosts + 1
    /\ hs' = [hs EXCEPT ![nPosts + 1] = [NoHandler EXCEPT !.pc = "body",
                                                          !.body = body]]
    /\ UNCHANGED <<serverVars, clientVars,
                   scopeVars, idVars>>

\* Lines 186-216: the body is read, the handler decides and responds.
HProcess(h) ==
    /\ hs[h].pc = "body"
    /\ hs' = [hs EXCEPT
                ![h] = [HandlePost(hs[h].body, registry, wallet) EXCEPT
                          !.opens = CanOpen(wallet, ServerDid, hs[h].body),
                          !.reg = registry[hs[h].body.snd] # 0,
                          !.live = HasLiveSession(hs[h].body.snd),
                          !.at = 1 + Cardinality({g \in Posts :
                                        hs[g].pc \notin {"idle", "body"}})]]
    /\ UNCHANGED <<serverVars, nPosts, clientVars,
                   scopeVars, idVars>>

\* await writer.send(item) on the capacity-0 stream: the handler joins
\* the stream's waiting senders.
HEnqueue(h) ==
    /\ hs[h].pc = "responded"
    /\ inQ' = [inQ EXCEPT ![hs[h].sess] = Append(@, h)]
    /\ hs' = [hs EXCEPT ![h].pc = "blocked"]
    /\ UNCHANGED <<sClosed, registry, wallet, nConns, lastReject, sDid, sPc,
                   sSent, wire, srvRecv, nPosts, clientVars,
                   scopeVars, idVars>>

\* The server application receives from session k's read_stream: the
\* first waiting sender hands over its item and returns.
SrvAppRecv(k) ==
    /\ inQ[k] # <<>>
    /\ LET h == Head(inQ[k]) IN
        /\ srvRecv' = [srvRecv EXCEPT ![k] = Append(@, hs[h].item)]
        /\ hs' = [hs EXCEPT ![h].pc = "done"]
    /\ inQ' = [inQ EXCEPT ![k] = Tail(@)]
    /\ UNCHANGED <<sClosed, registry, wallet, nConns, lastReject, sDid, sPc,
                   sSent, wire, nPosts, clientVars,
                   scopeVars, idVars>>

\* -------------------------------------------------- client: sse_client
\* The identifiers the client's wallet has verified: it resolved the
\* server's before connecting.
ClientVids == {ServerDid}

\* The endpoint's origin check: urljoin(url, data) keeps the connection's
\* scheme and host when data is a relative URL.
OriginOk(data) == JsonGet(data, "url") = RelativeUrl

\* One turn of sse_reader's loop on a pushed event, up to its next await:
\* "endpoint" (task_status.started), "item" (an item to send on
\* read_stream_writer, the loop goes on), "ignore", or "fail" (an exception
\* left the loop: the except clause sends it and the reader closes).
ClientEvent(ev, did) ==
    LET tspMessage == B64Decode(ev.data, ClientAltChars) IN
    IF ~CanOpen(ClientVids, did, tspMessage)
    THEN [kind |-> "fail", item |-> ErrItem]
    ELSE LET sse == tspMessage.payload IN
         IF sse.event = "endpoint"
         THEN IF OriginOk(sse.data)
              THEN [kind |-> "endpoint", item |-> NoItem]
              ELSE [kind |-> "fail", item |-> ErrItem]
         ELSE IF sse.event = "message"
         THEN IF ParseOk(sse.data)
              THEN [kind |-> "item", item |-> MsgItem(ParseJson(sse.data))]
              ELSE [kind |-> "item", item |-> ErrItem]
         ELSE [kind |-> "ignore", item |-> NoItem]

\* sse_reader takes the next pushed event.  On the endpoint event
\* tg.start returns, post_writer is started and the streams are yielded.
CRead(k) ==
    /\ cR[k] = "read"
    /\ cPos[k] < Len(wire[k])
    /\ cPos' = [cPos EXCEPT ![k] = @ + 1]
    /\ LET r == ClientEvent(wire[k][cPos[k] + 1], sDid[k]) IN
        /\ cR' = [cR EXCEPT ![k] = CASE r.kind = "item" -> "deliver"
                                     [] r.kind = "fail" -> "fail"
                                     [] OTHER -> "read"]
        /\ cItem' = [cItem EXCEPT ![k] = r.item]
        /\ cYield' = [cYield EXCEPT ![k] = @ \/ r.kind = "endpoint"]
        /\ cW' = [cW EXCEPT ![k] = IF r.kind = "endpoint" /\ @ = "none"
                                   THEN "loop" ELSE @]
    /\ UNCHANGED <<serverVars, postVars, cRecv, cSent, cPostH, scopeVars,
                   idVars>>

\* The client application receives from read_stream what sse_reader is
\* sending; it holds the stream only once sse_client has yielded.
CAppRecv(k) ==
    /\ cR[k] \in {"deliver", "fail"}
    /\ cYield[k]
    /\ cRecv' = [cRecv EXCEPT ![k] = Append(@, cItem[k])]
    /\ cItem' = [cItem EXCEPT ![k] = NoItem]
    /\ cR' = [cR EXCEPT ![k] = IF @ = "fail" THEN "closed" ELSE "read"]
    /\ cInClosed' = [cInClosed EXCEPT ![k] = @ \/ cR[k] = "fail"]
    /\ UNCHANGED <<serverVars, postVars, cPos, cYield, cW, cSent, cPostH,
                   cScope, cOutClosed, idVars>>

\* The server ended the stream and every event is consumed: aiter_sse is
\* exhausted, sse_reader closes read_stream_writer.
CStreamEnd(k) ==
    /\ cR[k] = "read"
    /\ sPc[k] = "closed"
    /\ cPos[k] = Len(wire[k])
    /\ cR' = [cR EXCEPT ![k] = "closed"]
    /\ cInClosed' = [cInClosed EXCEPT ![k] = TRUE]
    /\ UNCHANGED <<serverVars, postVars, cPos, cItem, cRecv, cYield, cW,
                   cSent, cPostH, cScope, cOutClosed, idVars>>

\* The client application sends its next message on write_stream;
\* post_writer takes it, seals it for the server and POSTs it.
CPost(k) ==
    /\ cW[k] = "loop"
    /\ ~cOutClosed[k]
    /\ cSent[k] < MaxMsgs
    /\ nPosts < MaxPosts
    /\ cSent' = [cSent EXCEPT ![k] = @ + 1]
    /\ nPosts' = nPosts + 1
    /\ hs' = [hs EXCEPT
                ![nPosts + 1] =
                    [NoHandler EXCEPT
                       !.pc = "body",
                       !.body = Seal(sDid[k], ServerDid,
                                     DumpJson(ClientMsg(k, cSent[k] + 1)))]]
    /\ cPostH' = [cPostH EXCEPT ![k] = nPosts + 1]
    /\ cW' = [cW EXCEPT ![k] = "posting"]
    /\ UNCHANGED <<serverVars, cR, cPos, cItem, cRecv, cYield, scopeVars,
                   idVars>>

\* Mutant: only a server error counts as a failure.
IsSuccessBelow500(status) == status \in 200..499

\* response.raise_for_status() raises unless the status is a 2xx.
IsSuccess(status) == status \in 200..299

\* The POST's response arrives: raise_for_status lets post_writer loop on
\* a success and ends it, closing write_stream, on anything else.
CPostResp(k) ==
    /\ cW[k] = "posting"
    /\ LET h == hs[cPostH[k]] IN
        /\ h.resp # 0 \/ h.pc = "raised"
        /\ cW' = [cW EXCEPT ![k] = IF IsSuccess(h.resp) THEN "loop"
                                   ELSE "closed"]
        /\ cOutClosed' = [cOutClosed EXCEPT ![k] = @ \/ ~IsSuccess(h.resp)]
    /\ cPostH' = [cPostH EXCEPT ![k] = 0]
    /\ UNCHANGED <<serverVars, postVars, cR, cPos, cItem, cRecv, cYield,
                   cSent, cScope, cInClosed, idVars>>

\* ------------------------- sse_client against an arbitrary server
MaxEvents == 3      \* events pushed on all streams by an arbitrary server

\* An endpoint that urljoin resolves to another scheme or host.
AbsoluteUrl == 1
OtherOriginUri == << <<"url", AbsoluteUrl>> >>

\* A blob that was damaged on its way: open_message raises on it.
Damaged(ev) == [ev EXCEPT !.data.blob.intact = FALSE]

\* What a server may push next on connection k's stream: as the first
\* event an endpoint event, of the connection's origin or of another;
\* after it a message event with a message, with a text that is no
\* message or with a blob that does not open, or an event of another name.
NextEvents(k) ==
    LET n == Len(wire[k]) IN
    IF n = 0
    THEN { SseSend(sDid[k], "endpoint", SessionUri),
           SseSend(sDid[k], "endpoint", OtherOriginUri) }
    ELSE { SseSend(sDid[k], "message", DumpJson(ServerMsg(k, n))),
           SseSend(sDid[k], "message", GarbageText),
           Damaged(SseSend(sDid[k], "message", DumpJson(ServerMsg(k, n)))),
           SseSend(sDid[k], "ping", <<>>) }

\* The events pushed on all streams so far.
RECURSIVE SumLen(_, _)
SumLen(f, n) == IF n = 0 THEN 0 ELSE Len(f[n]) + SumLen(f, n - 1)

SrvPush(k) ==
    /\ sPc[k] \in {"endpoint", "loop"}
    /\ SumLen(wire, MaxConns) < MaxEvents
    /\ \E ev \in NextEvents(k) : wire' = [wire EXCEPT ![k] = Append(@, ev)]
    /\ sPc' = [sPc EXCEPT ![k] = "loop"]
    /\ UNCHANGED <<sClosed, registry, wallet, nConns, lastReject, sDid, sSent, inQ,
                   srvRecv, postVars, clientVars, scopeVars, idVars>>

\* The status a server answers a POST with.
PostStatuses == {202, 404}
PostAnswer(h, status) ==
    /\ hs[h].pc = "body"
    /\ hs' = [hs EXCEPT ![h].pc = "done", ![h].resp = status]
    /\ UNCHANGED <<serverVars, nPosts, clientVars, scopeVars, idVars>>

\* The application closes write_stream, the outbound queue's sending end.
CAppClose(k) ==
    /\ cYield[k] /\ cScope[k] = "open"
    /\ ~cOutClosed[k]
    /\ cOutClosed' = [cOutClosed EXCEPT ![k] = TRUE]
    /\ UNCHANGED <<serverVars, postVars, clientVars, cScope, cInClosed,
                   idVars>>

\* post_writer's async for ends on the closed outbound queue: it leaves
\* its async with and its finally clause, and returns.
CWriterEnd(k) ==
    /\ cW[k] = "loop"
    /\ cOutClosed[k]
    /\ cW' = [cW EXCEPT ![k] = "closed"]
    /\ UNCHANGED <<serverVars, postVars, cR, cPos, cItem, cRecv, cYield,
                   cSent, cPostH, scopeVars, idVars>>
\* The caller leaves the async with of sse_client, normally or by an
\* exception thrown in at the yield: line 199 cancels the task group.
CExit(k) ==
    /\ cYield[k] /\ cScope[k] = "open"
    /\ cScope' = [cScope EXCEPT ![k] = "cancelled"]
    /\ UNCHANGED <<serverVars, postVars, clientVars, cInClosed, cOutClosed,
                   idVars>>

\* Lines 200-202: the host task closes both sending ends, then waits in
\* the task group's exit for its child tasks.
CHostClose(k) ==
    /\ cScope[k] = "cancelled"
    /\ cScope' = [cScope EXCEPT ![k] = "closing"]
    /\ cInClosed' = [cInClosed EXCEPT ![k] = TRUE]
    /\ cOutClosed' = [cOutClosed EXCEPT ![k] = TRUE]
    /\ UNCHANGED <<serverVars, postVars, clientVars, idVars>>

\* Mutant: only a task that waits for the network is cancelled.
CancellableNetOnly(pc) == pc \in {"read", "posting"}

\* The awaits of the two tasks, where a cancellation reaches them: the
\* stream's next event, a send on read_stream_writer, the next item of
\* write_stream_reader, a POST's response.
Cancellable(pc) == pc \in {"read", "deliver", "fail", "loop", "posting"}

\* The cancellation reaches sse_reader at its await: no except clause
\* catches it, the finally clause closes read_stream_writer.
CReaderCancelled(k) ==
    /\ cScope[k] \in {"cancelled", "closing"}
    /\ cR[k] # "closed" /\ Cancellable(cR[k])
    /\ cR' = [cR EXCEPT ![k] = "closed"]
    /\ cInClosed' = [cInClosed EXCEPT ![k] = TRUE]
    /\ UNCHANGED <<serverVars, postVars, cPos, cItem, cRecv, cYield, cW,
                   cSent, cPostH, cScope, cOutClosed, idVars>>

\* The cancellation reaches post_writer at its await: write_stream_reader
\* is closed by the async with, write_stream by the finally clause.
CWriterCancelled(k) ==
    /\ cScope[k] \in {"cancelled", "closing"}
    /\ cW[k] # "closed" /\ Cancellable(cW[k])
    /\ cW' = [cW EXCEPT ![k] = "closed"]
    /\ cOutClosed' = [cOutClosed EXCEPT ![k] = TRUE]
    /\ UNCHANGED <<serverVars, postVars, cR, cPos, cItem, cRecv, cYield,
                   cSent, cPostH, cScope, cInClosed, idVars>>

\* Both child tasks have ended: the task group's exit returns and the
\* release of sse_client is complete.
CRelease(k) ==
    /\ cScope[k] = "closing"
    /\ cR[k] = "closed" /\ cW[k] = "closed"
    /\ cScope' = [cScope EXCEPT ![k] = "released"]
    /\ UNCHANGED <<serverVars, postVars, clientVars, cInClosed, cOutClosed,
                   idVars>>

\* One call of sse_client: the handshake of the first connection.
ClientConnect(did) == nConns = 0 /\ ConnectSse(did)

\* sse_client against any server: the server pushes what it likes, ends
\* the stream and answers POSTs as it likes; the application sends,
\* receives, closes its sending end and leaves.  The event loop runs every
\* task that can run, and the application, until it leaves, takes what
\* waits for it.
ClientNext ==
    \/ \E did \in Peers : ClientConnect(did)
    \/ \E k \in Conns : SrvPush(k)
    \/ \E k \in Conns : SseClose(k)
    \/ \E h \in Posts, status \in PostStatuses : PostAnswer(h, status)
    \/ \E k \in Conns : CRead(k)
    \/ \E k \in Conns : CAppRecv(k)
    \/ \E k \in Conns : CStreamEnd(k)
    \/ \E k \in Conns : CPost(k)
    \/ \E k \in Conns : CPostResp(k)
    \/ \E k \in Conns : CAppClose(k)
    \/ \E k \in Conns : CWriterEnd(k)
    \/ \E k \in Conns : CExit(k)
    \/ \E k \in Conns : CHostClose(k)
    \/ \E k \in Conns : CReaderCancelled(k)
    \/ \E k \in Conns : CWriterCancelled(k)
    \/ \E k \in Conns : CRelease(k)

ClientFairness ==
    /\ \A k \in Conns : WF_vars(CRead(k))
    /\ \A k \in Conns : WF_vars(cScope[k] = "open" /\ CAppRecv(k))
    /\ \A k \in Conns : WF_vars(CStreamEnd(k))
    /\ \A k \in Conns : WF_vars(CPostResp(k))
    /\ \A k \in Conns : WF_vars(CWriterEnd(k))
    /\ \A k \in Conns : WF_vars(CHostClose(k))
    /\ \A k \in Conns : WF_vars(CReaderCancelled(k))
    /\ \A k \in Conns : WF_vars(CWriterCancelled(k))
    /\ \A k \in Conns : WF_vars(CRelease(k))

ClientSpec == Init /\ [][ClientNext]_vars /\ ClientFairness

\* ------------------------------------ shared: get_or_create_identity
MaxCalls == 4       \* calls of get_or_create_identity

\* wallet.verify_vid(did): resolves the identifier at the DID server.  It
\* succeeds when the server holds it, raises a 404 status error when it
\* does not, and raises something else when the request itself fails.
VerifyVid(did, published, netFails) ==
    IF netFails THEN "error"
    ELSE IF did \in published THEN "ok" ELSE "404"

\* Mutant: the identity is stored before the publish response is read.
StoreAfterPublishAlways(store, alias, did, ok) == [store EXCEPT ![alias] = did]

\* Lines 51-56: add_private_vid runs only after a publish response that
\* is ok; otherwise the function has raised.
StoreAfterPublish(store, alias, did, ok) ==
    IF ok THEN [store EXCEPT ![alias] = did] ELSE store

\* One call of get_or_create_identity(wallet, alias): a synchronous
\* function, so one step.  netFails and publishOk are what the DID server
\* does to this call's verify and publish requests.
GetOrCreateIdentity(alias, netFails, publishOk) ==
    /\ idCalls < MaxCalls
    /\ idCalls' = idCalls + 1
    /\ LET did == idStore[alias]
           verified == IF did = None THEN "none"
                       ELSE VerifyVid(did, idPublished, netFails)
           new == idUuids + 1
       IN  IF verified = "ok"
           THEN /\ idLast' = [alias |-> alias, did |-> did, raised |-> FALSE,
                              verified |-> verified, publish |-> "none"]
                /\ UNCHANGED <<idStore, idPublished, idUuids, idPublishCalls>>
           ELSE IF verified = "error"
           THEN /\ idLast' = [alias |-> alias, did |-> None, raised |-> TRUE,
                              verified |-> verified, publish |-> "none"]
                /\ UNCHANGED <<idStore, idPublished, idUuids, idPublishCalls>>
           ELSE /\ idUuids' = new
                /\ idPublishCalls' = idPublishCalls + 1
                /\ idPublished' = IF publishOk THEN idPublished \cup {new}
                                  ELSE idPublished
                /\ idStore' = StoreAfterPublish(idStore, alias, new, publishOk)
                /\ idLast' = [alias |-> alias,
                              did |-> IF publishOk THEN new ELSE None,
                              raised |-> ~publishOk, verified |-> verified,
                              publish |-> IF publishOk THEN "ok"
                                          ELSE "failed"]
    /\ UNCHANGED <<serverVars, postVars, clientVars, scopeVars>>

\* The DID server no longer holds an identifier it once published.
DidDropped(did) ==
    /\ did \in idPublished
    /\ idPublished' = idPublished \ {did}
    /\ UNCHANGED <<serverVars, postVars, clientVars, scopeVars, idStore,
                   idUuids, idPublishCalls, idCalls, idLast>>

\* Identity provisioning on one wallet, against a DID server that may
\* fail requests and forget identifiers.
IdentityNext ==
    \/ \E alias \in Aliases, netFails \in BOOLEAN, publishOk \in BOOLEAN :
         GetOrCreateIdentity(alias, netFails, publishOk)
    \/ \E did \in 1..MaxCalls : DidDropped(did)

IdentitySpec == Init /\ [][IdentityNext]_vars

\* -------------------------------------------------- the specifications
\* The transport end to end: sse_clients connect, both applications send
\* and receive, push streams may end.
Next ==
    \/ \E did \in Peers : ConnectSse(did)
    \/ \E k \in Conns : SseEndpoint(k)
    \/ \E k \in Conns : SrvAppSend(k)
    \/ \E k \in Conns : SseClose(k)
    \/ \E h \in Posts : HProcess(h)
    \/ \E h \in Posts : HEnqueue(h)
    \/ \E k \in Conns : SrvAppRecv(k)
    \/ \E k \in Conns : CRead(k)
    \/ \E k \in Conns : CAppRecv(k)
    \/ \E k \in Conns : CStreamEnd(k)
    \/ \E k \in Conns : CPost(k)
    \/ \E k \in Conns : CPostResp(k)

Spec == Init /\ [][Next]_vars

\* The server's two entry points under arbitrary requests: stream-open
\* requests of any kind, POST bodies of any caller.
ServerNext ==
    \/ \E did \in Peers : ConnectSse(did)
    \/ \E type \in {"http", "websocket"}, did \in Dids \cup {NoDid} :
         ConnectReject(type, did)
    \/ \E k \in Conns : SseEndpoint(k)
    \/ \E k \in Conns : SseClose(k)
    \/ \E body \in OtherBodies : PostArrive(body)
    \/ \E h \in Posts : HProcess(h)
    \/ \E h \in Posts : HEnqueue(h)
    \/ \E k \in Conns : SrvAppRecv(k)

ServerSpec == Init /\ [][ServerNext]_vars

\* The transport with no network failure (no push stream ends) and with
\* both applications reading: the event loop runs every task that can
\* run, and each application takes what waits on its inbound queue.
LiveNext ==
    \/ \E did \in Peers : ConnectSse(did)
    \/ \E k \in Conns : SseEndpoint(k)
    \/ \E k \in Conns : SrvAppSend(k)
    \/ \E h \in Posts : HProcess(h)
    \/ \E h \in Posts : HEnqueue(h)
    \/ \E k \in Conns : SrvAppRecv(k)
    \/ \E k \in Conns : CRead(k)
    \/ \E k \in Conns : CAppRecv(k)
    \/ \E k \in Conns : CPost(k)
    \/ \E k \in Conns : CPostResp(k)

Fairness ==
    /\ \A k \in Conns : WF_vars(SseEndpoint(k))
    /\ \A h \in Posts : WF_vars(HProcess(h))
    /\ \A h \in Posts : WF_vars(HEnqueue(h))
    /\ \A k \in Conns : WF_vars(SrvAppRecv(k))
    /\ \A k \in Conns : WF_vars(CRead(k))
    /\ \A k \in Conns : WF_vars(CAppRecv(k))
    /\ \A k \in Conns : WF_vars(CPostResp(k))

FairSpec == Init /\ [][LiveNext]_vars /\ Fairness

\* ------------------------------------------------------ the properties
\* The items of a queue's history, as a set of positions.
Idx(q) == 1..Len(q)

\* The connection and the position a message's id names.
MsgConn(m) == (m.id % 100) \div 10
MsgSeq(m) == m.id % 10

\* The sealed blob and the inner event of a pushed event.
PushedBlob(ev) == ev.data.blob
PushedKind(ev) == ev.data.blob.payload.event

\* The handler has read its request and decided.
Processed(h) == hs[h].pc \notin {"idle", "body"}

\* C3: on every push channel the endpoint event is the first event and
\* every later one is a message event; and the client's sse_reader holds
\* or has delivered an item only after it received the endpoint event.
C3_EndpointFirst ==
    \A k \in Conns :
        /\ \A i \in Idx(wire[k]) :
             PushedKind(wire[k][i]) = (IF i = 1 THEN "endpoint" ELSE "message")
        /\ (cR[k] = "deliver" \/ cRecv[k] # <<>>) => cYield[k]
        /\ cYield[k] => cPos[k] >= 1

C3_Witness ==
    \E k \in Conns : Len(wire[k]) >= 3 /\ Len(cRecv[k]) >= 2

\* C4 (as claimed): within a session both inbound queues yield the
\* messages of one sender in the order in which they were sent.
C4_OrderPreserved ==
    /\ \A s \in Conns : \A i, j \in Idx(srvRecv[s]) :
         (i < j /\ srvRecv[s][i].kind = "msg" /\ srvRecv[s][j].kind = "msg"
            /\ MsgConn(srvRecv[s][i].msg) = MsgConn(srvRecv[s][j].msg))
         => MsgSeq(srvRecv[s][i].msg) < MsgSeq(srvRecv[s][j].msg)
    /\ \A k \in Conns : \A i, j \in Idx(cRecv[k]) :
         (i < j /\ cRecv[k][i].kind = "msg" /\ cRecv[k][j].kind = "msg")
         => MsgSeq(cRecv[k][i].msg) < MsgSeq(cRecv[k][j].msg)

\* C5: every event on session k's channel is sealed by the server for
\* k's peer and, when a message, is one the application put on k's
\* outbound queue; what a client receives is a message of its own
\* session; a handler that found a writer found the one of a session of
\* its verified sender, waits on that session's queue only, and what the
\* server application receives on a session comes from that session's
\* peer.
C5_RoutedRight ==
    /\ \A k \in Conns :
        /\ \A i \in Idx(wire[k]) :
            LET b == PushedBlob(wire[k][i]) IN
            /\ b.snd = ServerDid /\ b.rcv = sDid[k]
            /\ b.payload.event = "message" =>
                 \E n \in 1..sSent[k] :
                    b.payload.data = DumpJson(ServerMsg(k, n))
        /\ \A i \in Idx(cRecv[k]) :
            \E n \in 1..sSent[k] : cRecv[k][i] = MsgItem(ServerMsg(k, n))
        /\ \A i \in Idx(inQ[k]) : hs[inQ[k][i]].sess = k
        /\ \A i \in Idx(srvRecv[k]) :
            \E c \in Conns : \E n \in 1..cSent[c] :
                sDid[c] = sDid[k] /\ srvRecv[k][i] = MsgItem(ClientMsg(c, n))
    /\ \A h \in Posts :
        hs[h].sess # 0 =>
            /\ sDid[hs[h].sess] = hs[h].body.snd
            /\ \A k \in Conns : \A i \in Idx(inQ[k]) :
                 inQ[k][i] = h => k = hs[h].sess

C5_Witness ==
    /\ nConns = 2 /\ sDid[1] # sDid[2]
    /\ srvRecv[1] # <<>> /\ srvRecv[2] # <<>>
    /\ cRecv[1] # <<>> /\ cRecv[2] # <<>>

\* What a POSTed body is, whatever the handler makes of it.
ForServer(h) == GetSenderReceiver(hs[h].body)[2] = ServerDid
Sender(h) == GetSenderReceiver(hs[h].body)[1]

\* C6 (as claimed): a POST that opens to a message, from a sender with
\* no running session (never registered, or its push stream has ended)
\* is answered 404; it is not answered 202 and it is not left unanswered.
C6_NoSessionIs404 ==
    \A h \in Posts :
        (Processed(h) /\ ForServer(h) /\ hs[h].opens /\ ~hs[h].live
            /\ ParseOk(hs[h].body.payload))
        => hs[h].resp = 404

\* C7: a step by which connect_sse rejects a stream-open request leaves
\* the Session Registry as it was, and an identifier whose resolution
\* fails is never found in the registry.
C7_RejectKeepsRegistry ==
    /\ [][lastReject' # lastReject => registry' = registry]_vars
    /\ [](registry[UnknownDid] = 0)

C7_Witness ==
    /\ lastReject = "resolve"
    /\ \E d \in Peers : registry[d] # 0 /\ HasLiveSession(d)

\* What a handler that turned a body away has done, and not done.
WrongReceiverRejected(h) ==
    /\ hs[h].pc = "done"
    /\ hs[h].resp \in 400..499
    /\ ~hs[h].opened /\ ~hs[h].looked
    /\ hs[h].sess = 0 /\ hs[h].item = NoItem
    /\ \A k \in Conns : \A i \in Idx(inQ[k]) : inQ[k][i] # h

\* C8: a handler whose body declares another receiver than the server
\* answers 4xx and returns: it has not opened the body, has no writer
\* from the registry, holds no item and waits on no queue; and its step
\* changes neither the registry nor any inbound queue.
C8_WrongReceiver ==
    /\ [](\A h \in Posts :
            (Processed(h) /\ ~ForServer(h)) => WrongReceiverRejected(h))
    /\ [][\A h \in Posts :
            (hs[h].pc = "body" /\ hs'[h].pc # "body" /\ ~ForServer(h))
            => (registry' = registry /\ inQ' = inQ /\ srvRecv' = srvRecv)]_vars

C8_Witness ==
    \E h \in Posts :
        /\ Processed(h) /\ ~ForServer(h)
        /\ registry[Sender(h)] # 0 /\ Sender(h) \in wallet

\* The body opened, its sender was registered, its text is no message.
ParseFailed(h) ==
    /\ Processed(h) /\ ForServer(h) /\ hs[h].opens /\ hs[h].reg
    /\ ~ParseOk(hs[h].body.payload)

\* The handler answered 202 and its message is on its way to, or in, what
\* the application received on the sender's session.
Accepted(h) ==
    /\ hs[h].resp = 202
    /\ hs[h].item = MsgItem(ParseJson(hs[h].body.payload))
    /\ hs[h].sess # 0 /\ sDid[hs[h].sess] = Sender(h)
    /\ hs[h].pc \in {"responded", "blocked", "done"}
    /\ hs[h].pc = "blocked" => \E i \in Idx(inQ[hs[h].sess]) : inQ[hs[h].sess][i] = h
    /\ hs[h].pc = "done" =>
         \E i \in Idx(srvRecv[hs[h].sess]) : srvRecv[hs[h].sess][i] = hs[h].item

\* C9: a handler whose body opened, from a sender the registry held, with
\* a plaintext that is no message, answers 400 and sends the error value
\* on that sender's session queue, where the application receives it; the
\* sender stays registered, and a well-formed POST of the same sender that
\* is handled later is answered 202 and its message delivered.
C9_ParseErrorForwarded ==
    \A h \in Posts :
        ParseFailed(h) =>
            /\ hs[h].resp = 400
            /\ hs[h].item = ErrItem
            /\ hs[h].sess # 0 /\ sDid[hs[h].sess] = Sender(h)
            /\ hs[h].pc \in {"responded", "blocked", "done"}
            /\ hs[h].pc = "blocked" =>
                 \E i \in Idx(inQ[hs[h].sess]) : inQ[hs[h].sess][i] = h
            /\ hs[h].pc = "done" =>
                 \E i \in Idx(srvRecv[hs[h].sess]) :
                    srvRecv[hs[h].sess][i] = ErrItem
            /\ registry[Sender(h)] # 0
            /\ \A g \in Posts :
                 (hs[g].at > hs[h].at /\ ForServer(g) /\ hs[g].opens
                    /\ Sender(g) = Sender(h) /\ ParseOk(hs[g].body.payload))
                 => Accepted(g)

C9_Witness ==
    \E h, g \in Posts :
        /\ ParseFailed(h) /\ hs[h].pc = "done"
        /\ hs[g].at > hs[h].at
        /\ Sender(g) = Sender(h) /\ ParseOk(hs[g].body.payload)
        /\ hs[g].pc = "done" /\ hs[g].resp = 202

\* C10 (as claimed): a handler whose body, addressed to the server, does
\* not unseal answers with a client error; no exception leaves it.
C10_UnsealFailureIs4xx ==
    \A h \in Posts :
        (Processed(h) /\ ForServer(h) /\ ~hs[h].opens)
        => (hs[h].pc # "raised" /\ hs[h].resp \in 400..499)

\* Where an item occurs in the histories of a family of queues.
Occurrences(recv, item) ==
    {p \in Conns \X (1..(MaxPosts + MaxSrvMsgs)) :
        p[2] <= Len(recv[p[1]]) /\ recv[p[1]][p[2]] = item}

\* A client message is received at most once, after it was sent, on a
\* session of its sender's identifier.
C1_ReceivedOnce ==
    \A k \in Conns, n \in 1..MaxMsgs :
        LET at == Occurrences(srvRecv, MsgItem(ClientMsg(k, n))) IN
        /\ Cardinality(at) <= 1
        /\ \A p \in at : n <= cSent[k] /\ sDid[p[1]] = sDid[k]

\* C1: with no network failure and the server application reading, the
\* n-th message a client application has sent on connection k is
\* eventually in what the server application received on a session of
\* that client's identifier, equal to what was sent; and at all times it
\* is there at most once, only after it was sent, and on no session of
\* another identifier.
C1_ClientToServer ==
    /\ []C1_ReceivedOnce
    /\ \A k \in Conns, n \in 1..MaxMsgs :
         (cSent[k] >= n) ~>
            (\E p \in Occurrences(srvRecv, MsgItem(ClientMsg(k, n))) :
                sDid[p[1]] = sDid[k])

C1_Witness ==
    \E k \in Conns :
        /\ cSent[k] = 2
        /\ Occurrences(srvRecv, MsgItem(ClientMsg(k, 1))) # {}
        /\ Occurrences(srvRecv, MsgItem(ClientMsg(k, 2))) # {}

\* A server message is received at most once, after it was sent, by the
\* client of its session.
C2_ReceivedOnce ==
    \A k \in Conns, n \in 1..MaxSrvMsgs :
        LET at == Occurrences(cRecv, MsgItem(ServerMsg(k, n))) IN
        /\ Cardinality(at) <= 1
        /\ \A p \in at : n <= sSent[k] /\ p[1] = k

\* C2: while the push stream stays open and the client application reads,
\* the n-th message the server application has sent on session k is
\* eventually in what the client application of connection k received,
\* equal to what was sent; and at all times it is there at most once, only
\* after it was sent, and in no other client's inbound queue.
C2_ServerToClient ==
    /\ []C2_ReceivedOnce
    /\ \A k \in Conns, n \in 1..MaxSrvMsgs :
         (sSent[k] >= n) ~>
            (\E p \in Occurrences(cRecv, MsgItem(ServerMsg(k, n))) : p[1] = k)

C2_Witness ==
    \E k \in Conns :
        /\ sSent[k] = 2
        /\ cRecv[k] = <<MsgItem(ServerMsg(k, 1)), MsgItem(ServerMsg(k, 2))>>

\* ------------------------------------------- last-handshake-wins (C11)
\* The newest session opened for an identifier, 0 when there is none.
LatestSession(d) ==
    LET ks == {k \in 1..nConns : sDid[k] = d}
    IN  IF ks = {} THEN 0 ELSE CHOOSE k \in ks : \A j \in ks : j <= k

\* C11: the registry maps an identifier to one session, the newest one
\* opened for it (a second handshake of an identifier replaces its entry);
\* a handler that looks its sender up gets the session registered at that
\* moment, the newest, and joins the waiting senders of that session's
\* inbound queue and of no other.
C11_LastHandshakeWins ==
    /\ [](\A d \in Dids : registry[d] = LatestSession(d))
    /\ [][\A h \in Posts :
            (hs[h].pc = "body" /\ hs'[h].pc # "body" /\ hs'[h].sess # 0)
            => hs'[h].sess = LatestSession(Sender(h))]_vars
    /\ [][\A k \in Conns :
            Len(inQ'[k]) > Len(inQ[k])
            => hs[inQ'[k][Len(inQ'[k])]].sess = k]_vars

\* Two sessions of one identifier, and a message that the client of the
\* first sent after the second handshake: the second session received it.
C11_Witness ==
    /\ nConns = 2 /\ sDid[1] = sDid[2]
    /\ \E n \in 1..MaxMsgs :
         /\ Occurrences(srvRecv, MsgItem(ClientMsg(1, n))) = {<<2, 1>>}
         /\ Occurrences(srvRecv, MsgItem(ClientMsg(2, 1))) = {<<2, 2>>}

\* -------------------------------------- the client's scope (C12..C17)
\* C12: once the caller has left sse_client (line 199 has cancelled the
\* task group), in whatever state it found the two tasks, the release
\* eventually completes; and when it is complete both sending ends,
\* read_stream_writer and write_stream, are closed and sse_reader and
\* post_writer have both ended.
C12_ExitReleasesAll ==
    /\ [](\A k \in Conns :
            cScope[k] = "released" =>
                /\ cInClosed[k] /\ cOutClosed[k]
                /\ cR[k] = "closed" /\ cW[k] = "closed")
    /\ \A k \in Conns : (cScope[k] = "cancelled") ~> (cScope[k] = "released")

\* The release is complete of a connection whose reader was cancelled in
\* a send on the inbound queue and whose writer in a POST.
C12_Witness ==
    \E k \in Conns :
        /\ cScope[k] = "released"
        /\ cItem[k] # NoItem /\ cPostH[k] # 0

\* The first event of connection k's stream is an endpoint event of
\* another origin, and sse_reader has taken it.
OriginMismatchSeen(k) ==
    /\ cPos[k] >= 1
    /\ PushedKind(wire[k][1]) = "endpoint"
    /\ ~OriginOk(PushedBlob(wire[k][1]).payload.data)

\* C13 (as claimed): when the endpoint event names another origin, the
\* caller gets no stream pair, post_writer is never started and nothing
\* is POSTed, and the call of sse_client ends (its task group is left and
\* the error reaches the caller).
C13_OriginMismatchRejected ==
    /\ [](\A k \in Conns :
            OriginMismatchSeen(k) =>
                ~cYield[k] /\ cW[k] = "none" /\ cSent[k] = 0)
    /\ \A k \in Conns : OriginMismatchSeen(k) ~> (cScope[k] = "released")

\* A pushed message event that the client cannot turn into a message: its
\* blob does not open, or its text is no message.
BadMessage(k, ev) ==
    /\ PushedKind(ev) = "message"
    /\ \/ ~CanOpen(ClientVids, sDid[k], B64Decode(ev.data, ClientAltChars))
       \/ ~ParseOk(PushedBlob(ev).payload.data)

\* C14 (as claimed): when the event sse_reader took last is a bad message,
\* the reader hands an error value to the inbound queue and stays in its
\* receive loop: it is not in its except clause on the way out, and it has
\* ended only if the stream ended or the scope was cancelled.
C14_BadMessageIsolated ==
    \A k \in Conns :
        (cPos[k] >= 2 /\ BadMessage(k, wire[k][cPos[k]])) =>
            /\ cR[k] # "fail"
            /\ cR[k] = "deliver" => cItem[k] = ErrItem
            /\ cR[k] = "closed" =>
                 \/ cScope[k] # "open"
                 \/ sPc[k] = "closed" /\ cPos[k] = Len(wire[k])

\* The connection whose post_writer sent the body of invocation h.
PostConn(h) == MsgConn(ParseJson(hs[h].body.payload))

\* post_writer of connection k has had a POST answered with a status that
\* is no success (or not answered at all, the connection failing).
FailedPost(k, h) ==
    /\ hs[h].pc \in {"done", "raised"} /\ PostConn(h) = k
    /\ ~(hs[h].resp \in 200..299)
    /\ cPostH[k] # h

\* C15: after a POST of connection k got a response that is no success,
\* post_writer has ended and write_stream is closed, that POST is the last
\* one of the connection, and from then on the application's send is not
\* accepted: no step adds to the messages post_writer has taken.
C15_FailedPostIsFatal ==
    /\ [](\A k \in Conns, h \in Posts :
            FailedPost(k, h) =>
                /\ cW[k] = "closed" /\ cOutClosed[k]
                /\ \A g \in Posts : (g > h /\ hs[g].pc # "idle") => PostConn(g) # k)
    /\ [][\A k \in Conns :
            cOutClosed[k] =>
                /\ cSent'[k] = cSent[k]
                /\ \A g \in Posts :
                     (hs[g].pc = "idle" /\ hs'[g].pc # "idle") => PostConn(g)' # k]_vars

\* The first POST of a connection was answered 404 while the application
\* still had a message to send and POSTs were left.
C15_Witness ==
    \E k \in Conns, h \in Posts :
        /\ FailedPost(k, h) /\ hs[h].resp = 404
        /\ cSent[k] < MaxMsgs /\ nPosts < MaxPosts
        /\ cScope[k] = "open"

ReaderFailed(k) ==
    /\ cR[k] = "closed" /\ cPos[k] >= 2
    /\ ClientEvent(wire[k][cPos[k]], sDid[k]).kind = "fail"

\* C17 (as claimed): while the caller is inside sse_client, once the
\* receive task has failed, or the send task has failed or ended because
\* the application closed the outbound queue, the other task is ended
\* too and both sending ends are closed, the caller not having left.
C17_FailureCancelsScope ==
    \A k \in Conns :
        (cScope[k] = "open" /\ cYield[k]
            /\ (ReaderFailed(k) \/ cW[k] = "closed"))
        ~> (cR[k] = "closed" /\ cW[k] = "closed"
            /\ cInClosed[k] /\ cOutClosed[k])

\* ------------------------------------- the server's teardown (C18, C19)
\* The push streams that are running, and the identifiers the registry
\* holds an entry for.
LiveStreams == {k \in Conns : sPc[k] \in {"endpoint", "loop"}}
Registered == {d \in Dids : registry[d] # 0}

\* C18 (as claimed): once the push stream of a session has ended the
\* registry no longer holds that session's entry, so the registry never
\* has more entries than there are running push streams.
C18_EndedSessionRemoved ==
    /\ \A k \in Conns : sPc[k] = "closed" => registry[sDid[k]] # k
    /\ Cardinality(Registered) <= Cardinality(LiveStreams)

\* C19 (as claimed): once the push loop of a session has ended, both
\* directions of the session are closed: the outbound queue's receiving
\* end (write_stream_reader) and the inbound queue's sending end
\* (read_stream_writer), so that a receive on the inbound queue ends.
C19_BothDirectionsClosed ==
    \A k \in Conns :
        sPc[k] = "closed" =>
            {"write_stream_reader", "read_stream_writer"} \subseteq sClosed[k]

\* The invocation holds a message and is past its response: about to send
\* it on the inbound queue, waiting in that send, or done with it.
HoldsMessage(h) ==
    hs[h].item.kind = "msg" /\ hs[h].pc \in {"responded", "blocked", "done"}

\* C20: an invocation that accepted a message has sent its 202 before it
\* joins the senders of the inbound queue (the step that answers touches
\* no queue, and the step that joins is taken by an answered invocation);
\* and the client's post_writer can take the response while the
\* invocation has not yet handed its message to the application.
C20_AckBeforeEnqueue ==
    /\ [](\A h \in Posts : HoldsMessage(h) => hs[h].resp = 202)
    /\ [](\A k \in Conns :
            (cW[k] = "posting" /\ HoldsMessage(cPostH[k])
                /\ hs[cPostH[k]].pc # "done")
            => ENABLED CPostResp(k))
    /\ [][\A h \in Posts :
            (hs[h].pc = "body" /\ hs'[h].resp = 202)
            => (inQ' = inQ /\ srvRecv' = srvRecv)]_vars
    /\ [][\A k \in Conns :
            Len(inQ'[k]) > Len(inQ[k])
            => hs[inQ'[k][Len(inQ'[k])]].resp # 0]_vars

\* A client has its 202 and is back in its loop while the invocation that
\* answered is still waiting in its send on the inbound queue.
C20_Witness ==
    \E k \in Conns, h \in Posts :
        /\ hs[h].pc = "blocked" /\ hs[h].resp = 202 /\ PostConn(h) = k
        /\ hs[h].body = Seal(sDid[k], ServerDid, DumpJson(ClientMsg(k, cSent[k])))
        /\ cW[k] = "loop" /\ cPostH[k] = 0

\* ------------------------------------ handshake before the POSTs (C21)
\* C21: a session whose endpoint event is on its channel has its peer's
\* entry in the registry; a client's post_writer runs only once its
\* sse_reader has taken the endpoint event; so every POST of a client,
\* whenever it is handled, found an entry for its sender and is not
\* answered 404.
C21_PostFindsSession ==
    /\ \A k \in Conns :
        /\ wire[k] # <<>> => registry[sDid[k]] # 0
        /\ cW[k] # "none" =>
             (cPos[k] >= 1 /\ PushedKind(wire[k][1]) = "endpoint")
        /\ cSent[k] > 0 => cW[k] # "none"
    /\ \A h \in Posts :
        Processed(h) =>
            /\ hs[h].reg /\ hs[h].looked /\ hs[h].sess # 0
            /\ hs[h].resp # 404

\* A client that has read nothing but the endpoint event had a POST
\* handled after its session's push stream ended: it was accepted.
C21_Witness ==
    \E h \in Posts, k \in Conns :
        /\ Processed(h) /\ PostConn(h) = k /\ hs[h].resp = 202
        /\ ~hs[h].live /\ sPc[k] = "closed"
        /\ cPos[k] = 1

====
